---- MODULE Spec2Model ----
(***************************************************************************)
(* A model of aptamers_mlpd/search/walkers.py: the point mutator           *)
(* mutate_seq, the per-seed greedy SamplingWalker and the joint-population *)
(* GeneticWalker.                                                          *)
(*                                                                         *)
(* A DNA string is a tuple of one-letter strings.  Every random draw of    *)
(* the code is an input of the step that makes it: the outcome of          *)
(* random_state.shuffle is a permutation, the outcome of random_state      *)
(* .choice an index, the outcome of random.randint a distance, the answer  *)
(* of the inferer a list of scores.  Scores are exact multiples of the     *)
(* epsilon of make_children (a score n stands for n * 1e-5).               *)
(***************************************************************************)
EXTENDS Integers, Sequences, FiniteSets, TLC

VARIABLES walker, cfg, seeds, generation_counts,
          pc, error, result,
          seed_index, mutant_protos, walk,
          population, generation_number, children,
          population_sizes, oracle_mismatch,
          twin, call, pair

vars == <<walker, cfg, seeds, generation_counts, pc, error, result,
          seed_index, mutant_protos, walk,
          population, generation_number, children,
          population_sizes, oracle_mismatch, twin, call, pair>>

(***************************************************************************)
(* Bounds of the model.                                                    *)
(***************************************************************************)
MaxSeqLen == 3
MaxScore == 1
MaxTrials == 2

(***************************************************************************)
(* Generic helpers on sequences.                                           *)
(***************************************************************************)
Min(a, b) == IF a < b THEN a ELSE b

Max(a, b) == IF a > b THEN a ELSE b

\* Python's xs[:n] for n >= 0.
Take(xs, n) == SubSeq(xs, 1, Min(n, Len(xs)))

Range(xs) == {xs[j] : j \in DOMAIN xs}

\* Every ordering of the numbers 1..n: the outcomes of shuffling range(n).
Shuffles(n) == {p \in [1..n -> 1..n] : \A a, b \in 1..n : a # b => p[a] # p[b]}

\* Every listing of a finite set without repetition: the orders in which a
\* Python set may be iterated.
Orders(S) ==
  {o \in [1..Cardinality(S) -> S] :
     \A a, b \in 1..Cardinality(S) : a # b => o[a] # o[b]}

RECURSIVE SumSeq(_)
SumSeq(xs) == IF xs = <<>> THEN 0 ELSE Head(xs) + SumSeq(Tail(xs))

\* Python's max() over the keys of a dict with at least one key.
MaxKey(d) == CHOOSE k \in DOMAIN d : \A j \in DOMAIN d : j <= k

(***************************************************************************)
(* dna.DNA_BASES and mutate_seq.                                           *)
(***************************************************************************)
DNA_BASES == <<"A", "C", "G", "T">>

\* Outcomes of random_state.choice over the bases other than the current one.
Picks(n) == [1..n -> 1..(Len(DNA_BASES) - 1)]

\* Lines 95-99: the bases, each position of `positions` in turn replaced by
\* the picked base among those different from the base it holds.
RECURSIVE ApplyMutations(_, _, _)
ApplyMutations(new_base_list, positions, picks) ==
  IF positions = <<>> THEN new_base_list
  ELSE LET i == Head(positions)
           c == new_base_list[i]
           others == SelectSeq(DNA_BASES, LAMBDA base : base # c)
       IN ApplyMutations([new_base_list EXCEPT ![i] = others[Head(picks)]],
                         Tail(positions), Tail(picks))

\* A mutator whose slice of the shuffled positions is one too long.
mutate_seq_one_more(seq, num_mutations, shuffled, picks) ==
  ApplyMutations(seq, Take(shuffled, num_mutations + 1), picks)

\* A mutator that deletes the first base of its result.
mutate_seq_with_deletion(seq, num_mutations, shuffled, picks) ==
  Tail(ApplyMutations(seq, Take(shuffled, num_mutations), picks))

\* Lines 91-100: shuffled is the shuffled position list, picks the bases
\* drawn, one per mutated position.
mutate_seq(seq, num_mutations, shuffled, picks) ==
  ApplyMutations(seq, Take(shuffled, num_mutations), picks)

\* Number of positions at which two strings of equal length differ.
Hamming(s, t) == Cardinality({j \in DOMAIN s : s[j] # t[j]})

\* Every string over DNA_BASES of length 1..n.
Strings(n) == UNION {[1..len -> Range(DNA_BASES)] : len \in 1..n}

(***************************************************************************)
(* Mutant, sort_by_score and the choice protos.                            *)
(***************************************************************************)
\* The score a mutant is created with before the inferer has scored it.
UNSCORED == 100000

\* Lines 41-45.
Mutant(sequence, parent, seed, score) ==
  [sequence |-> sequence, parent |-> parent, seed |-> seed, score |-> score]

\* A set that tells Mutants apart by all their fields.
SetAddByIdentity(mutant_set, mutant) == mutant_set \cup {mutant}

\* Lines 47-51 as set.add uses them: a Mutant whose sequence the set already
\* holds is not added, whatever its parent, seed and score.
SetAdd(mutant_set, mutant) ==
  IF \E x \in mutant_set : x.sequence = mutant.sequence
  THEN mutant_set
  ELSE mutant_set \cup {mutant}

\* x placed behind every entry of the descending list whose score is not
\* smaller than its own.
InsertByScore(x, sorted) ==
  LET k == Cardinality({j \in DOMAIN sorted : sorted[j].score >= x.score})
  IN SubSeq(sorted, 1, k) \o <<x>> \o SubSeq(sorted, k + 1, Len(sorted))

\* A sort that puts the lowest score first.
RECURSIVE sort_ascending(_)
sort_ascending(iterable) ==
  IF iterable = <<>> THEN <<>>
  ELSE LET rest == sort_ascending(Tail(iterable))
           x == Head(iterable)
           k == Cardinality({j \in DOMAIN rest : rest[j].score < x.score})
       IN SubSeq(rest, 1, k) \o <<x>> \o SubSeq(rest, k + 1, Len(rest))

\* Lines 57-65: sorted() by score, descending and stable.
RECURSIVE sort_by_score(_)
sort_by_score(iterable) ==
  IF iterable = <<>> THEN <<>>
  ELSE InsertByScore(iterable[Len(iterable)],
                     sort_by_score(SubSeq(iterable, 1, Len(iterable) - 1)))

\* A record tagged with the step after the one it is given.
create_choice_pb_step_after(mutant, mutation_step) ==
  [sequence |-> mutant.sequence,
   mutation_step |-> mutation_step + 1,
   previous_sequence |-> mutant.parent,
   seed_sequence |-> mutant.seed,
   model_score |-> mutant.score]

\* A record whose previous_sequence is the seed of the mutant.
create_choice_pb_from_seed(mutant, mutation_step) ==
  [sequence |-> mutant.sequence,
   mutation_step |-> mutation_step,
   previous_sequence |-> mutant.seed,
   seed_sequence |-> mutant.seed,
   model_score |-> mutant.score]

\* The arguments search.create_choice_pb is called with (lines 215-224 and
\* 375-384) that vary from record to record.
create_choice_pb(mutant, mutation_step) ==
  [sequence |-> mutant.sequence,
   mutation_step |-> mutation_step,
   previous_sequence |-> mutant.parent,
   seed_sequence |-> mutant.seed,
   model_score |-> mutant.score]

(***************************************************************************)
(* SamplingWalker: the walk of one seed, as steps on a record that holds   *)
(* the locals of generate_one_seed_mutants and of one_generation.          *)
(*   parent_indices: the index into parents (from 0, as in the code) that  *)
(*   each pass of the sampling loop of the generation under way used;      *)
(*   collected: the number of mutants each finished generation sampled;    *)
(*   ranked: the sorted list of line 278 in the last finished generation,  *)
(*   before it is cut to n_to_keep;                                        *)
(*   passed_over: the sequences that a finished generation collected and   *)
(*   did not emit;                                                         *)
(*   affinities: the score the last scoring call gave to each sequence     *)
(*   (mutant_scores against mutant_seqs, lines 267-272);                   *)
(*   degraded: some generation ended its sampling by running out of trials *)
(*   with fewer than sampling_limit mutants.                               *)
(***************************************************************************)
\* A lookup that reads the count of the generation after i.
requested_count_at_next(counts, i) ==
  IF i + 1 \in DOMAIN counts THEN counts[i + 1] ELSE 0

\* Lines 206-209.
requested_count_at(counts, i) == IF i \in DOMAIN counts THEN counts[i] ELSE 0

\* A visited set that starts with every seed of the call.
set_of_all_seeds(seed) == Range(seeds) \cup {seed}

\* Line 197: set([seed]).
set_of_seed(seed) == {seed}

\* Lines 197-200.
NewWalk(seed) ==
  [seed |-> seed,
   selected_seq_set |-> set_of_seed(seed),
   mutant_protos |-> <<>>,
   parents |-> <<Mutant(seed, seed, seed, "None")>>,
   i |-> 0,
   mutant_set |-> {},
   attempts |-> 0,
   pc |-> "sampling",
   error |-> "none",
   parent_indices |-> <<>>,
   collected |-> <<>>, ranked |-> <<>>, affinities |-> <<>>,
   passed_over |-> {},
   degraded |-> FALSE]

\* Lines 255-256: the condition of the sampling loop.
MoreSampling(w, c) ==
  /\ Cardinality(w.mutant_set) < c.sampling_limit
  /\ w.attempts < c.max_trials

\* A membership test that lets every sequence through.
avoided_never(mutant_seq, to_avoid) == FALSE

\* Line 262.
avoided(mutant_seq, to_avoid) == mutant_seq \in to_avoid

\* An index computed from the number of attempts made before this one.
parent_index_before_increment(attempts, n_parents) ==
  (attempts - 1) % n_parents

\* Line 259: the index into parents, from attempts as already incremented.
parent_index(attempts, n_parents) == attempts % n_parents

\* Lines 258-264: one pass of the sampling loop.
Attempt(w, c, distance, shuffled, picks) ==
  IF Len(w.parents) = 0
  THEN [w EXCEPT !.attempts = @ + 1, !.pc = "raised",
                 !.error = "ZeroDivisionError"]
  ELSE LET attempts == w.attempts + 1
           index == parent_index(attempts, Len(w.parents))
           parent == w.parents[index + 1]
           mutant_seq == mutate_seq(parent.sequence, distance, shuffled, picks)
       IN [w EXCEPT
             !.attempts = attempts,
             !.parent_indices = Append(@, index),
             !.mutant_set =
                IF avoided(mutant_seq, w.selected_seq_set) THEN @
                ELSE SetAdd(@, Mutant(mutant_seq, parent.sequence,
                                      parent.seed, UNSCORED))]

\* An emission that takes as many mutants as were kept.
to_emit_all_kept(mutants, n_sequences) == mutants

\* Line 213: the mutants of a generation that become records.
to_emit(mutants, n_sequences) == Take(mutants, n_sequences)

\* A visited set that the emitted sequences do not join.
add_selected_nothing(selected_seq_set, emitted) == selected_seq_set

\* Line 225, for all the mutants a generation emits.
add_selected(selected_seq_set, emitted) ==
  selected_seq_set \cup {emitted[j].sequence : j \in DOMAIN emitted}

\* Parents that are all the mutants one_generation returned.
next_parents_all_kept(mutants, n_parents) == mutants

\* Line 228: the parents of the next generation.
next_parents(mutants, n_parents) == Take(mutants, n_parents)

\* Lines 267-279 and 206-228: the sampled set, iterated in `order`, is
\* scored with mutant_scores, sorted and cut; the top mutants are emitted
\* and the walk moves to the next generation or returns.
EndGeneration(w, c, counts, order, mutant_scores) ==
  IF Len(mutant_scores) < Len(order)
  THEN [w EXCEPT !.pc = "raised", !.error = "IndexError"]
  ELSE LET scored == [j \in DOMAIN order |->
                        [order[j] EXCEPT !.score = mutant_scores[j]]]
           n_sequences == requested_count_at(counts, w.i)
           n_to_keep == Max(n_sequences, c.n_parents)
           ranked == sort_by_score(scored)
           mutants == Take(ranked, n_to_keep)
           emitted == to_emit(mutants, n_sequences)
       IN [w EXCEPT
             !.mutant_protos =
                @ \o [j \in DOMAIN emitted |->
                        create_choice_pb(emitted[j], w.i + 1)],
             !.selected_seq_set = add_selected(@, emitted),
             !.parents = next_parents(mutants, c.n_parents),
             !.i = @ + 1,
             !.mutant_set = {},
             !.attempts = 0,
             !.parent_indices = <<>>,
             !.pc = IF w.i + 1 > MaxKey(counts) THEN "returned" ELSE "sampling",
             !.collected = Append(@, Len(order)),
             !.ranked = ranked,
             !.passed_over =
                @ \cup ({ranked[j].sequence : j \in DOMAIN ranked}
                          \ {emitted[j].sequence : j \in DOMAIN emitted}),
             !.affinities =
                [seq \in {order[j].sequence : j \in DOMAIN order} |->
                   mutant_scores[CHOOSE j \in DOMAIN order :
                                   order[j].sequence = seq]],
             !.degraded = @ \/ Len(order) < c.sampling_limit]

(***************************************************************************)
(* GeneticWalker.make_children: the selection weights.  A weight is a      *)
(* fraction <<numerator, denominator>>.                                    *)
(***************************************************************************)
\* Line 397, in the unit of the scores.
epsilon == 1

MinOf(xs) == CHOOSE m \in Range(xs) : \A x \in Range(xs) : m <= x

\* Weights shifted by the lowest score only.
shifted_scores_no_epsilon(raw_scores) ==
  [j \in DOMAIN raw_scores |-> raw_scores[j] - MinOf(raw_scores)]

\* Line 398.
shifted_scores(raw_scores) ==
  [j \in DOMAIN raw_scores |-> raw_scores[j] - MinOf(raw_scores) + epsilon]

\* Line 399.
score_to_probability(scores) ==
  [j \in DOMAIN scores |-> <<scores[j], SumSeq(scores)>>]

\* a/b + c/d, not reduced.
FracAdd(x, y) == <<x[1] * y[2] + y[1] * x[2], x[2] * y[2]>>

RECURSIVE FracSum(_)
FracSum(ps) == IF ps = <<>> THEN <<0, 1>> ELSE FracAdd(Head(ps), FracSum(Tail(ps)))

FracPositive(x) == x[2] # 0 /\ x[1] * x[2] > 0

FracIsOne(x) == x[2] # 0 /\ x[1] = x[2]

\* What numpy's RandomState.choice(a, size, replace=False, p=p) checks before
\* it draws (lines 400-404): a is not empty, p is a distribution, and p has
\* at least size non-zero entries.
ChoiceAccepts(possible_parents, size, p) ==
  /\ Len(possible_parents) > 0
  /\ \A j \in DOMAIN p : p[j][2] # 0 /\ p[j][1] * p[j][2] >= 0
  /\ FracIsOne(FracSum(p))
  /\ size <= Cardinality({j \in DOMAIN p : p[j][1] # 0})

\* Draws that may take a position more than once.
ChoiceOutcomesWithReplacement(n, size) == [1..size -> 1..n]

\* The draws of that call: size distinct positions of a, in any order.
ChoiceOutcomes(n, size) ==
  {o \in [1..size -> 1..n] : \A a, b \in 1..size : a # b => o[a] # o[b]}

\* The locals of make_children between its steps.
NoChildren ==
  [possible_parents |-> <<>>, score_to_probability |-> <<>>,
   parents |-> <<>>, child_seqs |-> <<>>]

(***************************************************************************)
(* The inputs of a run.                                                    *)
(***************************************************************************)
Scores == 0..MaxScore

\* The values of sampling_limit, n_parents and n_possible_parents that are run.
SamplingLimits == 1..2

ParentCounts == 1..2

PoolSizes == 1..2

\* What an inferer may answer for n sequences: one score each, or, when it
\* breaks its contract, one too few or one too many.  Without an inferer
\* random_state.rand(n) gives exactly n scores.
ScoreLists(n, inferer) ==
  IF inferer
  THEN UNION {[1..m -> Scores] : m \in {n - 1, n, n + 1} \cap Nat}
  ELSE [1..n -> Scores]

\* The outcomes of random.randint(min_distance, max_distance).
Distances(c) == c.min_distance..c.max_distance

\* Constructor arguments of the two walkers (lines 155-164 and 313-321);
\* d is <<min_distance, max_distance>>.
SamplingConfig(inferer, sampling_limit, max_trials, n_parents, d) ==
  [inferer |-> inferer, sampling_limit |-> sampling_limit,
   max_trials |-> max_trials, n_parents |-> n_parents,
   n_possible_parents |-> 0, min_distance |-> d[1], max_distance |-> d[2]]

GeneticConfig(inferer, n_possible_parents, n_parents, d) ==
  [inferer |-> inferer, sampling_limit |-> 0, max_trials |-> 0,
   n_parents |-> n_parents, n_possible_parents |-> n_possible_parents,
   min_distance |-> d[1], max_distance |-> d[2]]

Run(w, c, s, counts) ==
  [walker |-> w, cfg |-> c, seeds |-> s, generation_counts |-> counts]

Empty == [k \in {} |-> 0]

\* Requests that end at generation 0, and requests that run on.
ShortCounts == {Empty, (0 :> 1), (0 :> 2)}

LongCounts == {(1 :> 2), (0 :> 1 @@ 1 :> 1), (0 :> 2 @@ 1 :> 1),
               (0 :> 1 @@ 2 :> 1)}

\* Long walks are run from a seed of one base, walks of one generation also
\* from seeds of two bases and from several seeds.
SamplingRuns ==
  {Run("sampling", SamplingConfig(TRUE, sl, MaxTrials, np, <<1, 2>>),
       <<<<"A">>>>, counts) :
     sl \in SamplingLimits, np \in ParentCounts, counts \in LongCounts}
  \cup
  {Run("sampling", SamplingConfig(inf, sl, mt, np, d), s, counts) :
     inf \in BOOLEAN, sl \in SamplingLimits, mt \in 1..MaxTrials,
     np \in ParentCounts, d \in {<<1, 1>>, <<1, 2>>},
     s \in {<<>>, <<<<"A", "A">>>>, <<<<"A">>, <<"C">>>>},
     counts \in ShortCounts}

GeneticRuns ==
  {Run("genetic", GeneticConfig(TRUE, npp, 1, <<1, 2>>),
       <<<<"A">>, <<"C">>>>, counts) :
     npp \in PoolSizes, counts \in LongCounts}
  \cup
  {Run("genetic", GeneticConfig(inf, npp, np, d), s, counts) :
     inf \in BOOLEAN, npp \in PoolSizes, np \in ParentCounts,
     d \in {<<1, 1>>, <<1, 2>>},
     s \in {<<>>, <<<<"A">>, <<"C">>>>},
     counts \in ShortCounts}
  \cup
  {Run("genetic", GeneticConfig(TRUE, npp, 1, <<1, 2>>),
       <<<<"A", "A">>, <<"C", "A">>>>, counts) :
     npp \in PoolSizes, counts \in ShortCounts}

\* Runs whose min_distance is greater than the length of the seeds.
FarRuns ==
  {Run("sampling", SamplingConfig(TRUE, 1, 1, 1, <<2, 2>>),
       <<<<"A">>>>, (0 :> 1)),
   Run("genetic", GeneticConfig(TRUE, 1, 1, <<2, 2>>),
       <<<<"A">>, <<"C">>>>, (0 :> 1))}

\* A run that is asked for more records than its population holds.
ScarceRuns ==
  {Run("genetic", GeneticConfig(TRUE, 1, 1, <<1, 1>>),
       <<<<"A">>>>, (0 :> 3))}

(***************************************************************************)
(* Spec: one call of generate_mutants on a walker as constructed.          *)
(*   pc: "start" before the call, then the place in the call, "done"       *)
(*   after it returned `result`, "error" after it raised `error`.          *)
(***************************************************************************)
NoWalk == NewWalk(<<>>)

\* No pair of runs on two lists of seeds is under way.
NoPair == [draws |-> <<>>, a |-> <<>>, b |-> <<>>]

\* No call of mutate_seq on its own is under way.
NoCall == [seq |-> <<>>, num_mutations |-> 0, out |-> <<>>, pc |-> "idle"]

Init ==
  /\ \E run \in SamplingRuns \cup GeneticRuns \cup FarRuns \cup ScarceRuns :
       /\ walker = run.walker /\ cfg = run.cfg
       /\ seeds = run.seeds /\ generation_counts = run.generation_counts
  /\ pc = "start" /\ error = "none" /\ result = <<>>
  /\ seed_index = 0 /\ mutant_protos = <<>> /\ walk = NoWalk
  /\ population = <<>> /\ generation_number = 0 /\ children = NoChildren
  /\ population_sizes = <<>> /\ oracle_mismatch = FALSE
  /\ twin = NoWalk /\ call = NoCall /\ pair = NoPair

Fixed == <<walker, cfg, seeds, generation_counts, twin, call, pair>>

GeneticLocals == <<population, generation_number, children, population_sizes>>

\* pc and error after a step of the walk of one seed.
AfterWalkStep(w) ==
  /\ pc' = IF w.pc = "raised" THEN "error" ELSE pc
  /\ error' = IF w.pc = "raised" THEN w.error ELSE error

\* SamplingWalker.generate_mutants, lines 177-179.
SW_generate_mutants ==
  /\ pc = "start" /\ walker = "sampling"
  /\ mutant_protos' = <<>>
  /\ seed_index' = 1
  /\ pc' = "seeds"
  /\ UNCHANGED <<Fixed, GeneticLocals, error, result, walk, oracle_mismatch>>

\* Lines 179-183 and 197-204: the next seed's walk begins, or the list of
\* protos is returned; max() of an empty generation_counts raises.
SW_next_seed ==
  /\ pc = "seeds" /\ walker = "sampling"
  /\ IF seed_index > Len(seeds)
     THEN /\ pc' = "done" /\ result' = mutant_protos
          /\ UNCHANGED <<error, walk>>
     ELSE IF DOMAIN generation_counts = {}
     THEN /\ pc' = "error" /\ error' = "ValueError"
          /\ UNCHANGED <<result, walk>>
     ELSE /\ walk' = NewWalk(seeds[seed_index])
          /\ pc' = "walk"
          /\ UNCHANGED <<error, result>>
  /\ UNCHANGED <<Fixed, GeneticLocals, seed_index, mutant_protos,
                 oracle_mismatch>>

\* One pass of the sampling loop of one_generation, lines 255-264.
SW_attempt ==
  /\ pc = "walk" /\ walk.pc = "sampling" /\ MoreSampling(walk, cfg)
  /\ \E distance \in Distances(cfg),
        shuffled \in Shuffles(Len(walk.seed)),
        picks \in Picks(Len(walk.seed)) :
       walk' = Attempt(walk, cfg, distance, shuffled, picks)
  /\ AfterWalkStep(walk')
  /\ UNCHANGED <<Fixed, GeneticLocals, result, seed_index, mutant_protos,
                 oracle_mismatch>>

\* The rest of one_generation and of the generation's pass in
\* generate_one_seed_mutants, lines 267-279 and 206-228.
SW_end_generation ==
  /\ pc = "walk" /\ walk.pc = "sampling" /\ ~MoreSampling(walk, cfg)
  /\ \E order \in Orders(walk.mutant_set),
        mutant_scores \in ScoreLists(Cardinality(walk.mutant_set), cfg.inferer) :
       /\ walk' = EndGeneration(walk, cfg, generation_counts, order,
                                mutant_scores)
       /\ oracle_mismatch' = (oracle_mismatch \/ Len(mutant_scores) # Len(order))
  /\ AfterWalkStep(walk')
  /\ UNCHANGED <<Fixed, GeneticLocals, result, seed_index, mutant_protos>>

\* Lines 180-181 and 231: the walk of one seed returns its protos.
SW_seed_returns ==
  /\ pc = "walk" /\ walk.pc = "returned"
  /\ mutant_protos' = mutant_protos \o walk.mutant_protos
  /\ seed_index' = seed_index + 1
  /\ pc' = "seeds"
  /\ UNCHANGED <<Fixed, GeneticLocals, error, result, walk, oracle_mismatch>>

\* GeneticWalker.generate_mutants, lines 347-363: the seeds are scored and
\* zipped with their scores into the sorted population; max() of an empty
\* generation_counts raises.
GW_generate_mutants ==
  /\ pc = "start" /\ walker = "genetic"
  /\ mutant_protos' = <<>>
  /\ \E seed_scores \in ScoreLists(Len(seeds), cfg.inferer) :
       /\ population' =
            sort_by_score([j \in 1..Min(Len(seeds), Len(seed_scores)) |->
                             Mutant(seeds[j], seeds[j], seeds[j],
                                    seed_scores[j])])
       /\ oracle_mismatch' = (Len(seed_scores) # Len(seeds))
  /\ population_sizes' = <<Len(population')>>
  /\ generation_number' = 0
  /\ IF DOMAIN generation_counts = {}
     THEN pc' = "error" /\ error' = "ValueError"
     ELSE pc' = "select" /\ UNCHANGED error
  /\ UNCHANGED <<Fixed, result, seed_index, walk, children>>

\* A pool that is the whole population.
eligible_pool_whole_population(members, n_possible_parents) == members

\* Line 365: population[:self.n_possible_parents].
eligible_pool(members, n_possible_parents) == Take(members, n_possible_parents)

\* Lines 365 and 396-404: the pool, its weights, and the draw of the parents.
GW_select ==
  /\ pc = "select"
  /\ LET possible_parents == eligible_pool(population, cfg.n_possible_parents)
         raw_scores == [j \in DOMAIN possible_parents |-> possible_parents[j].score]
         p == score_to_probability(shifted_scores(raw_scores))
     IN IF ChoiceAccepts(possible_parents, cfg.n_parents, p)
        THEN /\ \E drawn \in ChoiceOutcomes(Len(possible_parents), cfg.n_parents) :
                  children' = [possible_parents |-> possible_parents,
                               score_to_probability |-> p,
                               parents |-> [j \in DOMAIN drawn |->
                                              possible_parents[drawn[j]]],
                               child_seqs |-> <<>>]
             /\ pc' = "mutate" /\ UNCHANGED error
        ELSE /\ children' = [NoChildren EXCEPT
                               !.possible_parents = possible_parents,
                               !.score_to_probability = p]
             /\ pc' = "error" /\ error' = "ValueError"
  /\ UNCHANGED <<Fixed, result, seed_index, mutant_protos, walk,
                 population, generation_number, population_sizes,
                 oracle_mismatch>>

\* Lines 407-411: the next parent's child.
GW_mutate ==
  /\ pc = "mutate" /\ Len(children.child_seqs) < Len(children.parents)
  /\ LET parent == children.parents[Len(children.child_seqs) + 1]
     IN \E distance \in Distances(cfg),
           shuffled \in Shuffles(Len(parent.sequence)),
           picks \in Picks(Len(parent.sequence)) :
          children' = [children EXCEPT !.child_seqs =
                         Append(@, mutate_seq(parent.sequence, distance,
                                              shuffled, picks))]
  /\ UNCHANGED <<Fixed, pc, error, result, seed_index, mutant_protos, walk,
                 population, generation_number, population_sizes,
                 oracle_mismatch>>

\* A population trimmed of its last member before the children join.
extend_dropping_last(old, new_children) ==
  Take(old, Len(old) - 1) \o new_children

\* A population that keeps only the children of the generation.
extend_replacing(old, new_children) == new_children

\* Line 368.
extend(old, new_children) == old \o new_children

\* The top of the members that are not seeds.
top_children(members, counts, g) ==
  IF g \in DOMAIN counts
  THEN Take(SelectSeq(members, LAMBDA m : m.parent # m.sequence), counts[g])
  ELSE <<>>

\* Lines 372-373: the members a generation saves.
top_examples(members, counts, g) ==
  IF g \in DOMAIN counts THEN Take(members, counts[g]) ELSE <<>>

\* The records so far and one more for every saved member whose sequence
\* has no record yet.
save_unseen_examples(protos, top, g) ==
  protos \o
    [j \in DOMAIN SelectSeq(top, LAMBDA m :
                      \A r \in Range(protos) : r.sequence # m.sequence) |->
       create_choice_pb(
         SelectSeq(top, LAMBDA m :
           \A r \in Range(protos) : r.sequence # m.sequence)[j], g)]

\* Lines 373-384: one record is appended for every saved member.
save_examples(protos, top, g) ==
  protos \o [j \in DOMAIN top |-> create_choice_pb(top[j], g)]

\* A child that takes its parent as its seed.
make_child_seeded_by_parent(child_seq, parent, child_score) ==
  Mutant(child_seq, parent.sequence, parent.sequence, child_score)

\* Lines 418-423: a child has its parent's sequence as parent and its
\* parent's seed as seed.
make_child(child_seq, parent, child_score) ==
  Mutant(child_seq, parent.sequence, parent.seed, child_score)

\* Lines 418-423 and 368-386, given the scores of the children.
GW_rest_of_generation(child_scores) ==
  IF Len(child_scores) < Len(children.parents)
  THEN /\ pc' = "error" /\ error' = "IndexError"
       /\ UNCHANGED <<result, mutant_protos, population, generation_number,
                      population_sizes>>
  ELSE LET made == [j \in DOMAIN children.parents |->
                      make_child(children.child_seqs[j],
                                 children.parents[j], child_scores[j])]
           sorted == sort_by_score(extend(population, made))
           top == top_examples(sorted, generation_counts, generation_number)
           protos == save_examples(mutant_protos, top, generation_number)
           last == generation_number + 1 > MaxKey(generation_counts)
       IN /\ population' = sorted
          /\ population_sizes' = Append(population_sizes, Len(sorted))
          /\ mutant_protos' = protos
          /\ generation_number' = generation_number + 1
          /\ pc' = IF last THEN "done" ELSE "select"
          /\ result' = IF last THEN protos ELSE result
          /\ UNCHANGED error

\* Lines 412-423 and 368-386: the children are scored and join the
\* population, which is sorted again; a requested generation emits its top
\* members; after the last generation the protos are returned.
GW_end_generation ==
  /\ pc = "mutate" /\ Len(children.child_seqs) = Len(children.parents)
  /\ \E child_scores \in ScoreLists(Len(children.child_seqs), cfg.inferer) :
       /\ oracle_mismatch' =
            (oracle_mismatch \/ Len(child_scores) # Len(children.child_seqs))
       /\ GW_rest_of_generation(child_scores)
  /\ UNCHANGED <<Fixed, seed_index, walk, children>>

Next ==
  \/ SW_generate_mutants
  \/ SW_next_seed
  \/ SW_attempt
  \/ SW_end_generation
  \/ SW_seed_returns
  \/ GW_generate_mutants
  \/ GW_select
  \/ GW_mutate
  \/ GW_end_generation

Spec == Init /\ [][Next]_vars

(***************************************************************************)
(* ExampleSpec: the two end-to-end runs on seeds of four bases.            *)
(*   A SamplingWalker on "AAAA" with min_distance = max_distance = 1 and   *)
(*   generation_counts = {0: 1}, for every sampling_limit, max_trials and  *)
(*   n_parents that are run, with and without an inferer.                  *)
(*   A GeneticWalker on "AAAA" and "CCCC" with n_possible_parents = 2,     *)
(*   n_parents = 1 and generation_counts = {0: 2}.                         *)
(***************************************************************************)
AAAA == <<"A", "A", "A", "A">>

CCCC == <<"C", "C", "C", "C">>

ExampleRuns ==
  {Run("sampling", SamplingConfig(inf, sl, mt, np, <<1, 1>>),
       <<AAAA>>, (0 :> 1)) :
     inf \in BOOLEAN, sl \in SamplingLimits, mt \in 1..MaxTrials,
     np \in ParentCounts}
  \cup
  {Run("genetic", GeneticConfig(inf, 2, 1, d), <<AAAA, CCCC>>, (0 :> 2)) :
     inf \in BOOLEAN, d \in {<<1, 1>>, <<1, 2>>}}

ExampleInit ==
  /\ \E run \in ExampleRuns :
       /\ walker = run.walker /\ cfg = run.cfg
       /\ seeds = run.seeds /\ generation_counts = run.generation_counts
  /\ pc = "start" /\ error = "none" /\ result = <<>>
  /\ seed_index = 0 /\ mutant_protos = <<>> /\ walk = NoWalk
  /\ population = <<>> /\ generation_number = 0 /\ children = NoChildren
  /\ population_sizes = <<>> /\ oracle_mismatch = FALSE
  /\ twin = NoWalk /\ call = NoCall /\ pair = NoPair

ExampleSpec == ExampleInit /\ [][Next]_vars

(***************************************************************************)
(* MutateSpec: one call of mutate_seq on every input within the bounds.    *)
(***************************************************************************)
MutateInit ==
  /\ call \in [seq : Strings(MaxSeqLen), num_mutations : 0..(MaxSeqLen + 1),
               out : {<<>>}, pc : {"called"}]
  /\ walker = "none" /\ cfg = <<>> /\ seeds = <<>> /\ generation_counts = <<>>
  /\ pc = "idle" /\ error = "none" /\ result = <<>>
  /\ seed_index = 0 /\ mutant_protos = <<>> /\ walk = NoWalk
  /\ population = <<>> /\ generation_number = 0 /\ children = NoChildren
  /\ population_sizes = <<>> /\ oracle_mismatch = FALSE
  /\ twin = NoWalk /\ pair = NoPair

MutateReturn ==
  /\ call.pc = "called"
  /\ \E shuffled \in Shuffles(Len(call.seq)), picks \in Picks(Len(call.seq)) :
       call' = [call EXCEPT
                  !.out = mutate_seq(call.seq, call.num_mutations, shuffled, picks),
                  !.pc = "returned"]
  /\ UNCHANGED <<walker, cfg, seeds, generation_counts, pc, error, result,
                 seed_index, mutant_protos, walk, population,
                 generation_number, children, population_sizes,
                 oracle_mismatch, twin, pair>>

MutateSpec == MutateInit /\ [][MutateReturn]_vars

(***************************************************************************)
(* TwinSpec: two SamplingWalker walks of the same seed, by walkers built   *)
(* with the same arguments and the same random_seed, scored by the same    *)
(* deterministic inferer.  Both walks are at the same place of the stream  *)
(* of self.random_state, so each step hands both the same shuffle and the  *)
(* same picks, and a set with the same members is iterated in the same     *)
(* order; the distance is drawn by random.randint from the generator of    *)
(* the random module, which no argument of the walker seeds, so each walk  *)
(* draws its own.                                                          *)
(***************************************************************************)
\* A deterministic inferer: the affinity of a sequence is its number of Cs.
StubAffinities(mutant_seqs) ==
  [j \in DOMAIN mutant_seqs |->
     Cardinality({k \in DOMAIN mutant_seqs[j] : mutant_seqs[j][k] = "C"})]

TwinRuns ==
  {Run("sampling", SamplingConfig(TRUE, sl, mt, np, d), s, counts) :
     sl \in SamplingLimits, mt \in 1..MaxTrials, np \in ParentCounts,
     d \in {<<1, 1>>, <<1, 2>>},
     s \in {<<<<"A", "A">>>>}, counts \in {(0 :> 1), (0 :> 2)}}
  \cup
  {Run("sampling", SamplingConfig(TRUE, sl, MaxTrials, 1, <<1, 1>>),
       <<<<"A">>>>, counts) :
     sl \in SamplingLimits, counts \in {(0 :> 1 @@ 1 :> 1)}}

TwinInit ==
  /\ \E run \in TwinRuns :
       /\ walker = run.walker /\ cfg = run.cfg
       /\ seeds = run.seeds /\ generation_counts = run.generation_counts
  /\ pc = "walk" /\ error = "none" /\ result = <<>>
  /\ seed_index = 1 /\ mutant_protos = <<>>
  /\ walk = NewWalk(seeds[1]) /\ twin = NewWalk(seeds[1])
  /\ population = <<>> /\ generation_number = 0 /\ children = NoChildren
  /\ population_sizes = <<>> /\ oracle_mismatch = FALSE
  /\ call = NoCall /\ pair = NoPair

\* The next step of a walk: a pass of the sampling loop, or the end of the
\* generation, scored by the stub.
WalkStep(w, distance, shuffled, picks, order) ==
  IF w.pc # "sampling" THEN w
  ELSE IF MoreSampling(w, cfg)
  THEN Attempt(w, cfg, distance, shuffled, picks)
  ELSE EndGeneration(w, cfg, generation_counts, order,
                     StubAffinities([j \in DOMAIN order |-> order[j].sequence]))

\* What the next step of a walk draws: a sampling pass draws a distance, a
\* shuffle and picks, the end of a generation iterates the sampled set.
Samples(w) == w.pc = "sampling" /\ MoreSampling(w, cfg)

DistancesOf(w) == IF Samples(w) THEN Distances(cfg) ELSE {0}

OrdersOf(w) == IF Samples(w) THEN {<<>>} ELSE Orders(w.mutant_set)

Twin_step ==
  /\ pc = "walk"
  /\ walk.pc = "sampling" \/ twin.pc = "sampling"
  /\ \E shuffled \in IF Samples(walk) \/ Samples(twin)
                     THEN Shuffles(Len(walk.seed)) ELSE {<<>>},
        picks \in IF Samples(walk) \/ Samples(twin)
                  THEN Picks(Len(walk.seed)) ELSE {<<>>},
        order \in OrdersOf(walk),
        twin_order \in OrdersOf(twin),
        distance \in DistancesOf(walk),
        twin_distance \in DistancesOf(twin) :
       /\ walk.mutant_set = twin.mutant_set => order = twin_order
       /\ walk' = WalkStep(walk, distance, shuffled, picks, order)
       /\ twin' = WalkStep(twin, twin_distance, shuffled, picks, twin_order)
  /\ UNCHANGED <<walker, cfg, seeds, generation_counts, pc, error, result,
                 seed_index, mutant_protos, population, generation_number,
                 children, population_sizes, oracle_mismatch, call,
                 pair>>

\* Both walks are over.
Twin_return ==
  /\ pc = "walk"
  /\ walk.pc # "sampling" /\ twin.pc # "sampling"
  /\ pc' = "done"
  /\ result' = walk.mutant_protos
  /\ UNCHANGED <<walker, cfg, seeds, generation_counts, error,
                 seed_index, mutant_protos, walk, population,
                 generation_number, children, population_sizes,
                 oracle_mismatch, twin, call, pair>>

TwinSpec == TwinInit /\ [][Twin_step \/ Twin_return]_vars

(***************************************************************************)
(* PairSpec: two calls of SamplingWalker.generate_mutants, run `a` and run *)
(* `b`, by walkers built with the same arguments and the same random_seed, *)
(* on two lists of seeds, scored by the same deterministic inferer.        *)
(* self.random_state is made once, in __init__ (line 162), and every walk  *)
(* of the call draws from it: the n-th pass of the sampling loop of a call *)
(* takes the n-th shuffle and picks of the stream, whichever seed it works *)
(* on.  The stream of a random_seed is the same in both runs: pair.draws   *)
(* holds it as far as it has been read.  min_distance = max_distance, so   *)
(* random.randint has one outcome.                                         *)
(***************************************************************************)
AA == <<"A", "A">>

CC == <<"C", "C">>

\* What one call of mutate_seq on a sequence of n bases takes from the stream.
Bundles(n) == [shuffled : Shuffles(n), picks : Picks(n)]

NoBundle == [shuffled |-> <<>>, picks |-> <<>>]

\* Lines 177-181: a call on seed_list, at the start of its first walk.
PairRun(seed_list) ==
  [seeds |-> seed_list, seed_index |-> 1, walk |-> NewWalk(seed_list[1]),
   used |-> 0, protos |-> <<>>, pc |-> "walk"]

PairRuns ==
  {[run |-> Run("sampling", SamplingConfig(TRUE, 1, mt, 1, <<1, 1>>),
                <<AA, CC>>, (0 :> 1)),
    other |-> s] :
     mt \in 1..MaxTrials, s \in {<<CC, AA>>, <<CC>>, <<AA, CC>>}}
  \cup
  {[run |-> Run("sampling", SamplingConfig(TRUE, 1, mt, 1, <<1, 1>>),
                <<<<"A">>, <<"C">>>>, (0 :> 1 @@ 1 :> 1)),
    other |-> s] :
     mt \in 1..MaxTrials,
     s \in {<<<<"C">>, <<"A">>>>, <<<<"C">>>>, <<<<"A">>, <<"C">>>>}}

PairInit ==
  /\ \E r \in PairRuns :
       /\ walker = r.run.walker /\ cfg = r.run.cfg
       /\ seeds = r.run.seeds /\ generation_counts = r.run.generation_counts
       /\ pair = [draws |-> <<>>, a |-> PairRun(r.run.seeds),
                  b |-> PairRun(r.other)]
  /\ pc = "pair" /\ error = "none" /\ result = <<>>
  /\ seed_index = 0 /\ mutant_protos = <<>> /\ walk = NoWalk
  /\ population = <<>> /\ generation_number = 0 /\ children = NoChildren
  /\ population_sizes = <<>> /\ oracle_mismatch = FALSE
  /\ twin = NoWalk /\ call = NoCall

\* The next step of a call draws from the stream.
PairSamples(r) ==
  r.pc = "walk" /\ r.walk.pc = "sampling" /\ MoreSampling(r.walk, cfg)

\* The next step of a call: a pass of the sampling loop on `bundle`, the end
\* of a generation whose set is iterated in `set_order`, or the return of a
\* walk (lines 180-183).
PairStep(r, bundle, set_order) ==
  IF PairSamples(r)
  THEN LET w == Attempt(r.walk, cfg, cfg.min_distance, bundle.shuffled,
                        bundle.picks)
       IN [r EXCEPT !.walk = w, !.used = @ + 1,
                    !.pc = IF w.pc = "raised" THEN "error" ELSE @]
  ELSE IF r.walk.pc = "sampling"
  THEN LET w == EndGeneration(r.walk, cfg, generation_counts, set_order,
                  StubAffinities([j \in DOMAIN set_order |->
                                    set_order[j].sequence]))
       IN [r EXCEPT !.walk = w,
                    !.pc = IF w.pc = "raised" THEN "error" ELSE @]
  ELSE IF r.seed_index + 1 > Len(r.seeds)
  THEN [r EXCEPT !.protos = @ \o r.walk.mutant_protos,
                 !.seed_index = @ + 1, !.pc = "done"]
  ELSE [r EXCEPT !.protos = @ \o r.walk.mutant_protos,
                 !.seed_index = @ + 1,
                 !.walk = NewWalk(r.seeds[r.seed_index + 1])]

\* Run a is called first, then run b.
Pair_step ==
  /\ pc = "pair"
  /\ pair.a.pc = "walk" \/ pair.b.pc = "walk"
  /\ LET who == IF pair.a.pc = "walk" THEN "a" ELSE "b"
         r == pair[who]
         fresh == r.used >= Len(pair.draws)
     IN \E bundle \in IF ~PairSamples(r) THEN {NoBundle}
                       ELSE IF fresh THEN Bundles(Len(r.walk.seed))
                       ELSE {pair.draws[r.used + 1]},
           set_order \in IF PairSamples(r) \/ r.walk.pc # "sampling"
                          THEN {<<>>} ELSE Orders(r.walk.mutant_set) :
          pair' = [pair EXCEPT
                     ![who] = PairStep(r, bundle, set_order),
                     !.draws = IF PairSamples(r) /\ fresh
                               THEN Append(@, bundle) ELSE @]
  /\ UNCHANGED <<walker, cfg, seeds, generation_counts, pc, error, result,
                 seed_index, mutant_protos, walk, population,
                 generation_number, children, population_sizes,
                 oracle_mismatch, twin, call>>

\* Both calls are over.
Pair_return ==
  /\ pc = "pair"
  /\ pair.a.pc # "walk" /\ pair.b.pc # "walk"
  /\ pc' = "done"
  /\ result' = pair.a.protos
  /\ UNCHANGED <<walker, cfg, seeds, generation_counts, error,
                 seed_index, mutant_protos, walk, population,
                 generation_number, children, population_sizes,
                 oracle_mismatch, twin, call, pair>>

PairSpec == PairInit /\ [][Pair_step \/ Pair_return]_vars

(***************************************************************************)
(* Properties of mutate_seq, checked under MutateSpec.                     *)
(***************************************************************************)
\* C1: for 1 <= k <= L, mutate_seq(s, k, rng) has the length of s and differs
\* from s at exactly k positions, each changed position holding a base of
\* DNA_BASES other than the original one and every other position unchanged,
\* whatever the random source draws.
C1_MutateExactDistance ==
  (/\ call.pc = "returned"
   /\ 1 <= call.num_mutations
   /\ call.num_mutations <= Len(call.seq))
  => /\ Len(call.out) = Len(call.seq)
     /\ Hamming(call.seq, call.out) = call.num_mutations
     /\ \A j \in DOMAIN call.seq :
          call.out[j] # call.seq[j] => call.out[j] \in Range(DNA_BASES)

\* A call with 1 < k < L that returned a string at distance k.
C1_Witness ==
  /\ call.pc = "returned"
  /\ call.num_mutations = 2 /\ Len(call.seq) = 3
  /\ Hamming(call.seq, call.out) = 2

\* C2: mutate_seq called with k greater than the length of the sequence
\* fails and so returns no mutated sequence.
C2_TooFarFails ==
  call.num_mutations > Len(call.seq) => call.pc # "returned"

(***************************************************************************)
(* Properties of a run of generate_mutants, checked under Spec.            *)
(***************************************************************************)
\* Number of records a walk emitted in generation i (tagged i + 1).
EmittedAt(w, i) ==
  Cardinality({j \in DOMAIN w.mutant_protos :
                 w.mutant_protos[j].mutation_step = i + 1})

\* C3: no record emitted by the SamplingWalker walk of a seed has that seed
\* as its sequence, in the walk under way and in the protos gathered and
\* returned.
C3_NeverEmitsSeed ==
  walker = "sampling" =>
    /\ \A j \in DOMAIN walk.mutant_protos :
         walk.mutant_protos[j].sequence # walk.seed
    /\ \A r \in Range(mutant_protos) \cup Range(result) :
         r.sequence # r.seed_sequence

\* A returned run with a record of generation 1, whose parent is one base
\* away from the seed, of one base itself.
C3_Witness ==
  /\ walker = "sampling" /\ pc = "done"
  /\ \E r \in Range(result) :
       r.mutation_step = 2 /\ Len(r.seed_sequence) = 1

\* C4: the number of records a SamplingWalker walk emits in generation i is
\* min(requested_count_at(i), number of distinct mutants sampled in
\* generation i).
C4_EmittedCount ==
  walker = "sampling" =>
    \A g \in DOMAIN walk.collected :
      EmittedAt(walk, g - 1) =
        Min(requested_count_at(generation_counts, g - 1), walk.collected[g])

\* A generation that was asked for two records, sampled one mutant and
\* emitted it.
C4_Witness ==
  /\ walker = "sampling"
  /\ \E g \in DOMAIN walk.collected :
       /\ requested_count_at(generation_counts, g - 1) = 2
       /\ walk.collected[g] = 1
       /\ EmittedAt(walk, g - 1) = 1

C6_WeightsAreDistribution ==
  LET p == children.score_to_probability
      pool == children.possible_parents
  IN /\ \A j \in DOMAIN p : FracPositive(p[j])
     /\ p # <<>> => FracIsOne(FracSum(p))
     /\ Len(p) = Len(pool)
     /\ (\A a, b \in DOMAIN pool : pool[a].score = pool[b].score) =>
          \A j \in DOMAIN p : p[j][1] * Len(pool) = p[j][2]

\* A pool of two members with the same score has been given its weights
\* (1/2 each).
C6_Witness ==
  /\ Len(children.possible_parents) = 2
  /\ children.possible_parents[1].score = children.possible_parents[2].score
  /\ Len(children.score_to_probability) = 2

\* C8: generate_mutants called with an empty generation_counts raises, so it
\* never returns.
C8_EmptyCountsRaise ==
  DOMAIN generation_counts = {} => pc # "done"

\* C9: once the inferer has answered with a number of scores that is not the
\* number of sequences it was given, the run has raised.
C9_MismatchRaises ==
  oracle_mismatch => pc = "error"

\* C10: a SamplingWalker run in which a generation ran out of trials with
\* fewer than sampling_limit mutants, and whose inferer kept its contract,
\* raises nothing.
C10_DegradedIsNoError ==
  (walker = "sampling" /\ walk.degraded /\ ~oracle_mismatch) => pc # "error"

\* The distance of a candidate from its parent lies in the configured range.
InRange(sequence, parent) ==
  /\ Len(sequence) = Len(parent)
  /\ cfg.min_distance <= Hamming(sequence, parent)
  /\ Hamming(sequence, parent) <= cfg.max_distance

\* C11, for the candidates made by mutation (the seed candidates, whose
\* parent is their own sequence, are left out): every mutant a SamplingWalker
\* samples and every child a GeneticWalker makes is at a Hamming distance
\* within [min_distance, max_distance] from its parent.
C11_DistanceWithinRange ==
  /\ walker = "sampling" =>
       \A m \in walk.mutant_set : InRange(m.sequence, m.parent)
  /\ walker = "genetic" =>
       \A j \in DOMAIN children.child_seqs :
         InRange(children.child_seqs[j], children.parents[j].sequence)

\* The records among protos that are tagged with mutation_step.
TaggedWith(protos, mutation_step) ==
  SelectSeq(protos, LAMBDA r : r.mutation_step = mutation_step)

\* The scores of a list of mutants never increase along the list.
NonIncreasing(mutants) ==
  \A j \in 1..(Len(mutants) - 1) : mutants[j].score >= mutants[j + 1].score

\* C15: the records a generation emits are a prefix of a ranking by
\* non-increasing score.  SamplingWalker: the list ranked in the generation
\* that just ended holds every mutant the generation collected, its scores
\* never increase, and the records of that generation are its first
\* members, in its order.  GeneticWalker: the same for the population after
\* the generation that just ended and the records tagged with it.
C15_EmittedPrefixOfRanking ==
  /\ (walker = "sampling" /\ walk.i > 0 /\ walk.attempts = 0
        /\ walk.pc # "raised") =>
       LET emitted == TaggedWith(walk.mutant_protos, walk.i)
       IN /\ Len(walk.ranked) = walk.collected[walk.i]
          /\ NonIncreasing(walk.ranked)
          /\ Len(emitted) <= Len(walk.ranked)
          /\ \A j \in DOMAIN emitted :
               emitted[j] = create_choice_pb(walk.ranked[j], walk.i)
  /\ (walker = "genetic" /\ generation_number > 0) =>
       LET emitted == TaggedWith(mutant_protos, generation_number - 1)
       IN /\ NonIncreasing(population)
          /\ Len(emitted) <= Len(population)
          /\ \A j \in DOMAIN emitted :
               emitted[j] = create_choice_pb(population[j],
                                             generation_number - 1)

\* A SamplingWalker generation that collected two mutants, scored them
\* differently and emitted the higher one only.
C15_Witness ==
  /\ walker = "sampling" /\ walk.i > 0 /\ walk.attempts = 0
  /\ Len(walk.ranked) = 2
  /\ walk.ranked[1].score > walk.ranked[2].score
  /\ TaggedWith(walk.mutant_protos, walk.i) =
       <<create_choice_pb(walk.ranked[1], walk.i)>>

\* A generation of a SamplingWalker walk after the first is under way.
InLaterGeneration ==
  walker = "sampling" /\ walk.i > 0 /\ walk.pc = "sampling"

\* C16 as claimed: the parents of generation i + 1 are the top n_to_keep
\* mutants of the list generation i ranked, with n_to_keep =
\* max(requested_count_at(i), n_parents).
C16_ParentsAreTopKeptClaimed ==
  InLaterGeneration =>
    walk.parents =
      Take(walk.ranked,
           Max(requested_count_at(generation_counts, walk.i - 1),
               cfg.n_parents))

\* C16 amended: the parents of generation i + 1 are the top n_parents
\* mutants of the list generation i ranked (all of them when it ranked
\* fewer), whatever count was requested for generation i, and every mutant
\* generation i + 1 samples has one of them as its parent.
C16_ParentsAreTopNParents ==
  InLaterGeneration =>
    /\ walk.parents = Take(walk.ranked, cfg.n_parents)
    /\ \A m \in walk.mutant_set :
         \E j \in DOMAIN walk.parents : m.parent = walk.parents[j].sequence

\* Generation 0 was asked for two records with n_parents = 1, ranked two
\* mutants and emitted both; generation 1 has one parent and has sampled a
\* mutant from it.
C16_Witness ==
  /\ InLaterGeneration /\ walk.i = 1
  /\ requested_count_at(generation_counts, 0) = 2 /\ cfg.n_parents = 1
  /\ Len(walk.ranked) = 2 /\ Len(walk.mutant_protos) = 2
  /\ Len(walk.parents) = 1
  /\ walk.mutant_set # {}

\* A step that ends generation walk.i of a SamplingWalker walk: every record
\* it appends carries mutation_step walk.i + 1, the seed of the walk, the
\* parent of the sampled mutant with its sequence, which is the sequence of
\* a member of the parents of this generation (the seed in generation 0),
\* and the score the scoring call of this generation gave to its sequence;
\* the records emitted before are kept, and the visited set grows by
\* exactly the sequences of the new records.
C17_Emission ==
  (walker = "sampling" /\ pc = "walk" /\ walk.pc = "sampling"
     /\ walk'.i = walk.i + 1) =>
    LET before == Len(walk.mutant_protos)
        new == SubSeq(walk'.mutant_protos, before + 1,
                      Len(walk'.mutant_protos))
    IN /\ Len(walk'.mutant_protos) >= before
       /\ SubSeq(walk'.mutant_protos, 1, before) = walk.mutant_protos
       /\ \A j \in DOMAIN new :
            /\ new[j].mutation_step = walk.i + 1
            /\ new[j].seed_sequence = walk.seed
            /\ \E m \in walk.mutant_set :
                 /\ m.sequence = new[j].sequence
                 /\ m.parent = new[j].previous_sequence
            /\ \E k \in DOMAIN walk.parents :
                 walk.parents[k].sequence = new[j].previous_sequence
            /\ walk.i = 0 => new[j].previous_sequence = walk.seed
            /\ new[j].sequence \in DOMAIN walk'.affinities
            /\ new[j].model_score = walk'.affinities[new[j].sequence]
       /\ walk'.selected_seq_set =
            walk.selected_seq_set \cup {new[j].sequence : j \in DOMAIN new}

\* C17: every record a SamplingWalker emits in generation i carries
\* generation index i + 1, the sequence of the parent it was mutated from
\* (a member of generation i's parents, the seed when i = 0), the seed of
\* the walk and the score the oracle gave its sequence in generation i, and
\* its sequence joins the visited set when it is emitted.
C17_RecordTags == [][C17_Emission]_vars

\* A walk emitted a record in generation 1 whose parent is not the seed and
\* whose sequence is in the visited set.
C17_Witness ==
  /\ walker = "sampling" /\ pc = "walk" /\ walk.i = 2
  /\ \E j \in DOMAIN walk.mutant_protos :
       /\ walk.mutant_protos[j].mutation_step = 2
       /\ walk.mutant_protos[j].previous_sequence # walk.seed
       /\ walk.mutant_protos[j].sequence \in walk.selected_seq_set
       /\ walk.mutant_protos[j].model_score =
            walk.affinities[walk.mutant_protos[j].sequence]

\* C18: in a GeneticWalker run every record is tagged with a generation
\* that has run; a generation g that is a key of generation_counts has
\* emitted min(generation_counts[g], size of the population after g)
\* records and a generation that is no key none; and the records of the
\* generation that just ended are the first members of the population as
\* it is after that generation (children appended, sorted again), each
\* with the member's sequence, parent, seed and score.
C18_GeneticEmission ==
  (walker = "genetic" /\ generation_number > 0) =>
    /\ \A r \in Range(mutant_protos) :
         r.mutation_step \in 0..(generation_number - 1)
    /\ \A g \in 0..(generation_number - 1) :
         Len(TaggedWith(mutant_protos, g)) =
           IF g \in DOMAIN generation_counts
           THEN Min(generation_counts[g], population_sizes[g + 2])
           ELSE 0
    /\ LET emitted == TaggedWith(mutant_protos, generation_number - 1)
       IN /\ Len(emitted) <= Len(population)
          /\ \A j \in DOMAIN emitted :
               /\ emitted[j].sequence = population[j].sequence
               /\ emitted[j].previous_sequence = population[j].parent
               /\ emitted[j].seed_sequence = population[j].seed
               /\ emitted[j].model_score = population[j].score

\* A generation asked for three records emitted the two members its
\* population has.
C18_Witness ==
  /\ walker = "genetic" /\ pc = "done"
  /\ generation_counts = (0 :> 3)
  /\ Len(population) = 2
  /\ Len(result) = 2
  /\ \A j \in 1..2 : result[j].mutation_step = 0

\* A generation that is no key of generation_counts ran and emitted nothing,
\* and a later one emitted a child of a child.
C18_SkippedGeneration ==
  /\ walker = "genetic" /\ pc = "done"
  /\ 0 \notin DOMAIN generation_counts
  /\ \E r \in Range(result) :
       r.mutation_step = 1 /\ r.previous_sequence \notin Range(seeds)

\* Once the parents of a generation are drawn: the pool is the first
\* n_possible_parents members of the sorted population, the parents are
\* n_parents members of the pool at pairwise distinct positions, and each
\* child made so far has the length of its parent.
C19_Selection ==
  (walker = "genetic" /\ pc = "mutate") =>
    /\ children.possible_parents = Take(population, cfg.n_possible_parents)
    /\ NonIncreasing(population)
    /\ Len(children.parents) = cfg.n_parents
    /\ \E drawn \in [1..cfg.n_parents -> DOMAIN children.possible_parents] :
         /\ \A a, b \in 1..cfg.n_parents : a # b => drawn[a] # drawn[b]
         /\ \A j \in 1..cfg.n_parents :
              children.parents[j] = children.possible_parents[drawn[j]]
    /\ Len(children.child_seqs) <= cfg.n_parents
    /\ \A j \in DOMAIN children.child_seqs :
         Len(children.child_seqs[j]) = Len(children.parents[j].sequence)

\* A step that ends a generation: one child per selected parent, n_parents
\* in all, joins the population, each with the sequence of its parent as
\* parent and the seed of its parent as seed.
C19_Children ==
  (walker = "genetic" /\ pc = "mutate"
     /\ generation_number' = generation_number + 1) =>
    /\ Len(children.child_seqs) = cfg.n_parents
    /\ Len(population') = Len(population) + cfg.n_parents
    /\ \A j \in 1..cfg.n_parents :
         \E k \in DOMAIN population' :
           /\ population'[k].sequence = children.child_seqs[j]
           /\ population'[k].parent = children.parents[j].sequence
           /\ population'[k].seed = children.parents[j].seed

\* C19: in a GeneticWalker generation with n_parents <= size of the pool,
\* the selected parents are n_parents pairwise distinct members of the pool,
\* the top n_possible_parents of the sorted population, and each yields
\* exactly one child, with parent = the member's sequence and seed = the
\* member's seed: n_parents children in all.
C19_DistinctParentsOneChildEach == []C19_Selection /\ [][C19_Children]_vars

\* Two parents were drawn from a pool of two and both have their child.
C19_Witness ==
  /\ walker = "genetic" /\ pc = "mutate"
  /\ cfg.n_parents = 2 /\ Len(children.possible_parents) = 2
  /\ children.parents[1] # children.parents[2]
  /\ Len(children.child_seqs) = 2

\* How many times x occurs in a list.
Occurrences(xs, x) == Cardinality({j \in DOMAIN xs : xs[j] = x})

\* A step that ends a GeneticWalker generation: every member of the
\* population is in the new population at least as many times, unchanged,
\* the population has n_parents members more, and its scores never
\* increase along it.
C20_Generation ==
  (walker = "genetic" /\ pc = "mutate"
     /\ generation_number' = generation_number + 1) =>
    /\ \A x \in Range(population) :
         Occurrences(population', x) >= Occurrences(population, x)
    /\ Len(population') = Len(population) + cfg.n_parents
    /\ NonIncreasing(population')

C21_CollectedBounded ==
  (walker = "sampling" /\ pc = "walk") =>
    /\ \A m, n \in walk.mutant_set : m.sequence = n.sequence => m = n
    /\ \A m \in walk.mutant_set : m.sequence \notin walk.selected_seq_set
    /\ Cardinality(walk.mutant_set) <= cfg.sampling_limit
    /\ walk.attempts <= cfg.max_trials
    /\ Cardinality(walk.mutant_set) <= walk.attempts

\* Generation 1 has two parents and sampling_limit = 2; its loop stopped
\* after max_trials = 2 passes with one mutant, the other pass having
\* given a visited sequence or the sequence already held.
C21_Witness ==
  /\ walker = "sampling" /\ pc = "walk" /\ walk.pc = "sampling"
  /\ walk.i = 1 /\ Len(walk.parents) = 2
  /\ cfg.sampling_limit = 2 /\ cfg.max_trials = 2
  /\ walk.attempts = 2
  /\ Cardinality(walk.mutant_set) = 1

\* C22: in a SamplingWalker generation with P parents, P > 0, the a-th pass
\* of the sampling loop (a from 1) mutates the parent at index a mod P: with
\* P >= 2 the first pass uses index 1 and index 0 is first used at pass P,
\* any P consecutive passes use every parent exactly once, and every
\* collected mutant names as parent the sequence of a parent so used.
C22_RoundRobin ==
  (walker = "sampling" /\ pc = "walk" /\ Len(walk.parents) > 0) =>
    LET P == Len(walk.parents)
        used == walk.parent_indices
    IN /\ Len(used) = walk.attempts
       /\ \A a \in DOMAIN used : used[a] = a % P
       /\ (P >= 2 /\ used # <<>>) => used[1] = 1
       /\ P >= 2 => \A a \in DOMAIN used : used[a] = 0 => a >= P
       /\ \A a \in 1..(Len(used) - P + 1) :
            {used[b] : b \in a..(a + P - 1)} = 0..(P - 1)
       /\ \A m \in walk.mutant_set :
            \E a \in DOMAIN used : m.parent = walk.parents[used[a] + 1].sequence

\* A generation with two parents made two passes: the first on the parent
\* at index 1, the second on the parent at index 0.
C22_Witness ==
  /\ walker = "sampling" /\ pc = "walk"
  /\ Len(walk.parents) = 2
  /\ walk.parent_indices = <<1, 0>>
  /\ walk.parents[1].sequence # walk.parents[2].sequence

\* C23: a SamplingWalker walk whose inferer keeps its contract runs the
\* generations 0, 1, ..., max(generation_counts) in order, each once, with
\* one scoring call per generation, and then returns: the generations
\* finished so far are 0..i-1, one scoring each; the walk does not raise;
\* and when it returns it has finished max + 1 generations.
C23_EveryGenerationOnce ==
  (walker = "sampling" /\ pc \in {"walk", "error"} /\ ~oracle_mismatch
     /\ DOMAIN generation_counts # {}) =>
    /\ Len(walk.collected) = walk.i
    /\ walk.i <= MaxKey(generation_counts) + 1
    /\ walk.pc = "returned" => walk.i = MaxKey(generation_counts) + 1
    /\ walk.pc # "raised"

\* Every Mutant of a list or set has a sequence and a parent of the length
\* of its seed.
SameLengthAsSeed(mutants) ==
  \A m \in mutants :
    Len(m.sequence) = Len(m.seed) /\ Len(m.parent) = Len(m.seed)

\* C24: in every run of either walker every candidate's sequence, and its
\* parent's, has the length of the seed of its lineage: the sampled mutants,
\* the parents and the ranked list of a SamplingWalker walk, the population,
\* the pool and the children of a GeneticWalker, and every record.
C24_LengthPreserved ==
  /\ SameLengthAsSeed(walk.mutant_set)
  /\ SameLengthAsSeed(Range(walk.parents))
  /\ SameLengthAsSeed(Range(walk.ranked))
  /\ SameLengthAsSeed(Range(population))
  /\ SameLengthAsSeed(Range(children.parents))
  /\ \A j \in DOMAIN children.child_seqs :
       Len(children.child_seqs[j]) = Len(children.parents[j].seed)
  /\ \A r \in Range(walk.mutant_protos) \cup Range(mutant_protos)
              \cup Range(result) :
       /\ Len(r.sequence) = Len(r.seed_sequence)
       /\ Len(r.previous_sequence) = Len(r.seed_sequence)
       /\ r.seed_sequence \in Range(seeds)

\* A run returned a record made by two mutations in a row, its parent being
\* a mutant of the seed, and the record has the length of the seed.
C24_Witness ==
  /\ pc = "done"
  /\ \E r \in Range(result) :
       /\ r.previous_sequence # r.seed_sequence
       /\ r.sequence # r.previous_sequence
       /\ Len(r.sequence) = Len(r.seed_sequence)

\* C25: the records a SamplingWalker walk of one seed has emitted have
\* pairwise distinct sequences, within a generation and across generations.
C25_EmittedOnce ==
  walker = "sampling" =>
    \A j, k \in DOMAIN walk.mutant_protos :
      j # k => walk.mutant_protos[j].sequence # walk.mutant_protos[k].sequence

\* A walk emitted records in generation 0 and in generation 2, the later one
\* made from a parent that is not the seed.
C25_Witness ==
  /\ walker = "sampling" /\ walk.pc = "returned"
  /\ \E j, k \in DOMAIN walk.mutant_protos :
       /\ walk.mutant_protos[j].mutation_step = 1
       /\ walk.mutant_protos[k].mutation_step = 3
       /\ walk.mutant_protos[k].previous_sequence # walk.seed

\* C26: throughout the SamplingWalker walk of a seed, and so at the start of
\* each of its generations, the visited set is exactly the seed and the
\* sequences the walk has emitted: it holds no other seed of the call and
\* nothing the walks before it emitted, and a sequence that was collected
\* but not emitted is in it only once a later generation has emitted it.
C26_VisitedIsSeedAndEmitted ==
  (walker = "sampling" /\ pc = "walk") =>
    /\ walk.selected_seq_set =
         {walk.seed} \cup
           {walk.mutant_protos[j].sequence : j \in DOMAIN walk.mutant_protos}
    /\ \A seq \in walk.passed_over :
         seq \in walk.selected_seq_set <=>
           \E j \in DOMAIN walk.mutant_protos :
             walk.mutant_protos[j].sequence = seq

\* A sequence that a generation collected and did not emit was collected
\* again and emitted by a later generation of the same walk.
C26_Witness ==
  /\ walker = "sampling" /\ pc = "walk"
  /\ \E j \in DOMAIN walk.mutant_protos :
       /\ walk.mutant_protos[j].sequence \in walk.passed_over
       /\ walk.mutant_protos[j].mutation_step > 1

\* The walk of the second seed of a call has begun, after the walk of the
\* first emitted a record, with only its own seed visited.
C26_SecondWalkStartsFresh ==
  /\ walker = "sampling" /\ pc = "walk" /\ seed_index = 2
  /\ mutant_protos # <<>>
  /\ walk.selected_seq_set = {walk.seed}

\* C27: a GeneticWalker run whose n_parents is greater than the size of the
\* pool, min(n_possible_parents, size of the population), stops at its
\* parent selection: from then on it has raised, with the ValueError of the
\* draw, in the generation of index 0 with nothing added to the population,
\* and it returns no record.
C27_TooManyParentsRaises ==
  (/\ walker = "genetic" /\ DOMAIN generation_counts # {}
   /\ pc \notin {"start", "select"}
   /\ cfg.n_parents > Min(cfg.n_possible_parents, Len(population))) =>
    /\ pc = "error" /\ error = "ValueError"
    /\ result = <<>> /\ mutant_protos = <<>>
    /\ generation_number = 0
    /\ population_sizes = <<Len(population)>>

\* Two parents were to be drawn from a pool of one, the top member of a
\* population of two, and the run raised.
C27_Witness ==
  /\ walker = "genetic" /\ pc = "error" /\ error = "ValueError"
  /\ DOMAIN generation_counts # {}
  /\ cfg.n_parents = 2 /\ cfg.n_possible_parents = 1
  /\ Len(population) = 2
  /\ Len(children.possible_parents) = 1

\* A member of the population that is an input seed as it was scored.
IsSeedMember(m) ==
  m.sequence \in Range(seeds) /\ m.parent = m.sequence /\ m.seed = m.sequence

\* C28: after a GeneticWalker generation g that is a key of
\* generation_counts, every seed among the first generation_counts[g]
\* members of the population has its record among those tagged g, at the
\* same rank, with sequence, parent and seed all equal to the seed and the
\* seed's score.
C28_SeedsAreEmitted ==
  (walker = "genetic" /\ generation_number > 0
     /\ generation_number - 1 \in DOMAIN generation_counts) =>
    LET g == generation_number - 1
        emitted == TaggedWith(mutant_protos, g)
    IN \A j \in 1..Min(generation_counts[g], Len(population)) :
         IsSeedMember(population[j]) =>
           /\ j \in DOMAIN emitted
           /\ emitted[j].sequence = population[j].sequence
           /\ emitted[j].previous_sequence = population[j].sequence
           /\ emitted[j].seed_sequence = population[j].sequence
           /\ emitted[j].model_score = population[j].score

\* A run returned two records of generation 0: a seed, with itself as
\* parent and seed, and a child.
C28_Witness ==
  /\ walker = "genetic" /\ pc = "done"
  /\ \E j, k \in DOMAIN result :
       /\ result[j].mutation_step = 0 /\ result[k].mutation_step = 0
       /\ result[j].sequence \in Range(seeds)
       /\ result[j].previous_sequence = result[j].sequence
       /\ result[j].seed_sequence = result[j].sequence
       /\ result[k].previous_sequence # result[k].sequence

\* The record says what the member says.
RecordOf(r, m) ==
  /\ r.sequence = m.sequence /\ r.previous_sequence = m.parent
  /\ r.seed_sequence = m.seed /\ r.model_score = m.score

\* The number of records the generations 0..last of a GeneticWalker run
\* were asked for and had members for.
RECURSIVE RecordsDue(_)
RecordsDue(last) ==
  IF last < 0 THEN 0
  ELSE RecordsDue(last - 1) +
         (IF last \in DOMAIN generation_counts
          THEN Min(generation_counts[last], population_sizes[last + 2])
          ELSE 0)

\* C29: in a GeneticWalker run the number of records so far is the sum,
\* over the requested generations g that have run, of
\* min(generation_counts[g], size of the population after g); and a member
\* among the first generation_counts[g2] of the population after a
\* requested generation g2 that already has a record tagged with an
\* earlier generation g1 has one more tagged g2, with the same sequence,
\* parent, seed and score.
C29_NoDeduplication ==
  (walker = "genetic" /\ generation_number > 0) =>
    /\ Len(mutant_protos) = RecordsDue(generation_number - 1)
    /\ pc = "done" => Len(result) = RecordsDue(MaxKey(generation_counts))
    /\ LET g2 == generation_number - 1
       IN g2 \in DOMAIN generation_counts =>
            \A j \in 1..Min(generation_counts[g2], Len(population)) :
              \A k \in DOMAIN mutant_protos :
                (/\ mutant_protos[k].mutation_step < g2
                 /\ RecordOf(mutant_protos[k], population[j])) =>
                  \E n \in DOMAIN mutant_protos :
                    /\ n > k
                    /\ mutant_protos[n].mutation_step = g2
                    /\ RecordOf(mutant_protos[n], population[j])

\* A run returned the same sequence twice, tagged 0 and 1, with the same
\* parent, seed and score.
C29_Witness ==
  /\ walker = "genetic" /\ pc = "done"
  /\ \E k, n \in DOMAIN result :
       /\ result[k].mutation_step = 0 /\ result[n].mutation_step = 1
       /\ result[k].sequence = result[n].sequence
       /\ result[k].previous_sequence = result[n].previous_sequence
       /\ result[k].seed_sequence = result[n].seed_sequence
       /\ result[k].model_score = result[n].model_score

\* Every member of the population has an input seed as seed, and is a seed
\* as it was scored or has a member with its parent field as sequence and
\* its seed field as seed.
C30_Members ==
  walker = "genetic" =>
    \A m \in Range(population) :
      /\ m.seed \in Range(seeds)
      /\ \/ IsSeedMember(m)
         \/ \E p \in Range(population) :
              p.sequence = m.parent /\ p.seed = m.seed

\* The first population holds seeds only, and every member a generation
\* adds has the sequence of a member of the eligible pool of the population
\* before it as parent and that member's seed as seed.
C30_Generation ==
  walker = "genetic" =>
    /\ pc = "start" => \A m \in Range(population') : IsSeedMember(m)
    /\ pc = "mutate" =>
         \A m \in Range(population') :
           Occurrences(population', m) > Occurrences(population, m) =>
             \E p \in Range(Take(population, cfg.n_possible_parents)) :
               /\ m.parent = p.sequence /\ m.seed = p.seed
               /\ m.sequence # p.sequence

\* C30: at every point of a GeneticWalker run every member of the
\* population has one of the input seeds as seed and is either an initial
\* member, with parent = seed = its own sequence, or a child whose parent
\* field is the sequence of a member that was in the eligible pool of the
\* population when the child was made and whose seed is that member's seed.
C30_Lineage == []C30_Members /\ [][C30_Generation]_vars

\* The population holds a child of a child: its parent is a member that is
\* no seed, and both have the same input seed as seed.
C30_Witness ==
  /\ walker = "genetic" /\ generation_number = 2
  /\ \E m, p \in Range(population) :
       /\ m.parent = p.sequence /\ m.seed = p.seed
       /\ p.parent # p.sequence /\ p.seed \in Range(seeds)
       /\ m.sequence \notin Range(seeds)

(***************************************************************************)
(* Properties of the end-to-end examples, checked under ExampleSpec.       *)
(***************************************************************************)
\* C12: the SamplingWalker run on "AAAA" with min_distance = max_distance = 1
\* and generation_counts = {0: 1} raises only when the inferer answers with
\* too few scores, and returns exactly one record: the one generation 0
\* emits (tagged mutation_step 1), with seed and parent "AAAA" and a
\* sequence that differs from "AAAA" at exactly one position, which holds C,
\* G or T.
C12_ExampleOne ==
  walker = "sampling" =>
    /\ pc = "error" => oracle_mismatch
    /\ pc = "done" =>
         /\ Len(result) = 1
         /\ result[1].mutation_step = 1
         /\ result[1].seed_sequence = AAAA
         /\ result[1].previous_sequence = AAAA
         /\ Len(result[1].sequence) = Len(AAAA)
         /\ Hamming(result[1].sequence, AAAA) = 1
         /\ \A j \in DOMAIN AAAA :
              result[1].sequence[j] \in Range(DNA_BASES)

\* The run returned its record after sampling two distinct mutants, with an
\* inferer that kept its contract.
C12_Witness ==
  /\ walker = "sampling" /\ pc = "done" /\ ~oracle_mismatch
  /\ seeds = <<AAAA>>
  /\ walk.collected = <<2>>
  /\ Len(result) = 1 /\ Hamming(result[1].sequence, AAAA) = 1

RecordsOf(protos, seed) ==
  SelectSeq(protos, LAMBDA r : r.seed_sequence = seed)

\* C14: two SamplingWalker calls with the same random_seed whose lists of
\* seeds share a seed return the same records for that seed, whatever the
\* other seeds of the lists and the order of the lists.
C14_SeedsIndependent ==
  (pair.a.pc = "done" /\ pair.b.pc = "done") =>
    \A seed \in Range(pair.a.seeds) \cap Range(pair.b.seeds) :
      RecordsOf(pair.a.protos, seed) = RecordsOf(pair.b.protos, seed)

\* Two calls on the same list of seeds return the same records.
SameListSameRecords ==
  (pair.a.pc = "done" /\ pair.b.pc = "done"
     /\ pair.a.seeds = pair.b.seeds) =>
    pair.a.protos = pair.b.protos

(***************************************************************************)
(* Properties of two runs on the same inputs, checked under TwinSpec.      *)
(***************************************************************************)
\* C7: two SamplingWalker runs given the same seed sequence, the same
\* random_seed and the same deterministic inferer emit the same records in
\* the same order.
C7_SameInputsSameRecords ==
  (walk.pc = "returned" /\ twin.pc = "returned") =>
    walk.mutant_protos = twin.mutant_protos

\* With min_distance = max_distance the draw of random.randint has one
\* outcome, and the two runs agree at every step.
TwinsAgreeOnFixedDistance ==
  cfg.min_distance = cfg.max_distance => walk = twin

====
